---- MODULE Spec2Model ----
(***************************************************************************)
(* SoccerBot (src/app.py): one Streamlit script.  Every user interaction   *)
(* re-executes the script from the top; st.session_state.messages (the     *)
(* Session History) is the only value that survives from one execution to  *)
(* the next.                                                               *)
(*                                                                         *)
(* Text is modelled as a sequence of code points.  A Hangul syllable is    *)
(* written as its romanisation in angle brackets ("<gyeong>"), an ASCII    *)
(* character as itself, and the newline, the tab, the full-width colon,    *)
(* the double quote and the backslash as "NL", "TAB", "FWCOLON", "QUOTE"   *)
(* and "BACKSLASH".  A fixed text of the program that no operation looks   *)
(* into (the system directive, the tails of the templates, the skeleton of *)
(* a JSON object, the model's reply, an exception's text) is one token.    *)
(***************************************************************************)
EXTENDS Integers, Sequences, FiniteSets, TLC

VARIABLES
    env_key,        \* AZURE_OAI_KEY is set in the process environment
    env_endpoint,   \* AZURE_OAI_ENDPOINT is set in the process environment
    client,         \* the module global `client` at the end of the last execution
    messages,       \* st.session_state.messages, the Session History
    trigger,        \* what started the last execution of the script
    stopped,        \* where the last execution called st.stop(), "" if it ran through,
                    \* "rerun_ctor" if the execution st.rerun() started stopped
    mode,           \* the sidebar radio value read by the last turn
    prompt,         \* the chat input read by the last turn
    is_soccer,      \* the classifier's result in the last turn
    branch,         \* the composition branch the last turn took
    sent,           \* the `messages` argument handed to the remote model
    tool_out,       \* the last serialized tool record
    outcome,        \* how the remote invocation ended
    reply,          \* assistant_reply
    n_calls,        \* remote invocations made by the last execution
    n_lookups,      \* local tool lookups made by the last execution
    turns           \* turns completed since the history was last empty

vars == <<env_key, env_endpoint, client, messages, trigger, stopped, mode, prompt,
          is_soccer, branch, sent, tool_out, outcome, reply, n_calls, n_lookups, turns>>

----------------------------------------------------------------------------
(* Bounds *)

\* turns accepted before the history is full
MaxTurns == 2

----------------------------------------------------------------------------
(* Characters and strings *)

\* Python's str whitespace, as far as the alphabet has it (\s and str.strip)
IsSpace(c) == c \in {" ", "NL", "TAB"}

\* "." without re.DOTALL: anything but a newline
IsDot(c) == c # "NL"

\* re.IGNORECASE: the pattern's letters are v and s; Hangul has no case
CaseFold(c) == IF c = "V" THEN "v" ELSE IF c = "S" THEN "s" ELSE c

RECURSIVE WsRun(_, _)
\* the length of the longest run of whitespace of p that starts at j
WsRun(p, j) == IF j > Len(p) \/ ~IsSpace(p[j]) THEN 0 ELSE 1 + WsRun(p, j + 1)

RECURSIVE DotRun(_, _)
\* the length of the longest run of non-newline characters of p that starts at j
DotRun(p, j) == IF j > Len(p) \/ ~IsDot(p[j]) THEN 0 ELSE 1 + DotRun(p, j + 1)

\* the literal lit of a pattern compiled with re.IGNORECASE matches p at j
LitAt(p, j, lit) ==
    /\ j >= 1
    /\ j + Len(lit) - 1 <= Len(p)
    /\ \A k \in 1..Len(lit) : CaseFold(p[j + k - 1]) = CaseFold(lit[k])

RECURSIVE LStrip(_)
LStrip(s) == IF s # <<>> /\ IsSpace(Head(s)) THEN LStrip(Tail(s)) ELSE s

RECURSIVE RStrip(_)
RStrip(s) == IF s # <<>> /\ IsSpace(s[Len(s)]) THEN RStrip(SubSeq(s, 1, Len(s) - 1)) ELSE s

\* str.strip()
Strip(s) == RStrip(LStrip(s))

RECURSIVE FindFrom(_, _, _)
\* the scan behind `k in s`: the first position from i on where k occurs
FindFrom(s, k, i) ==
    IF i + Len(k) - 1 > Len(s) THEN FALSE
    ELSE IF SubSeq(s, i, i + Len(k) - 1) = k THEN TRUE
    ELSE FindFrom(s, k, i + 1)

\* k in s
StrContains(s, k) == FindFrom(s, k, 1)

----------------------------------------------------------------------------
(* Keywords *)

\* mutant: the list without the two keywords the pattern markers contain
KeywordsWithoutMarkers == {
    <<"<chuk>", "<gu>">>,
    <<"<gol>">>,
    <<"<ri>", "<geu>">>,
    <<"<deuk>", "<jeom>">>,
    <<"<eo>", "<si>", "<seu>", "<teu>">>,
    <<"<po>", "<me>", "<i>", "<syeon>">>,
    <<"<jeon>", "<sul>">>,
    <<"<maen>", "<yu>">>,
    <<"<ri>", "<beo>", "<pul>">>,
    <<"<son>", "<heung>", "<min>">>,
    <<"<peu>", "<ri>", "<mi>", "<eo>", "<ri>", "<geu>">>,
    <<"<wol>", "<deu>", "<keop>">>,
    <<"<chaem>", "<pi>", "<eon>", "<seu>", "<ri>", "<geu>">>,
    <<"<ra>", "<ri>", "<ga>">>,
    <<"<bun>", "<de>", "<seu>", "<ri>", "<ga>">>,
    <<"<se>", "<ri>", "<e>", "A">> }

SOCCER_KEYWORDS == {
    <<"<chuk>", "<gu>">>,
    <<"<seon>", "<su>">>,
    <<"<gyeong>", "<gi>">>,
    <<"<gol>">>,
    <<"<ri>", "<geu>">>,
    <<"<deuk>", "<jeom>">>,
    <<"<eo>", "<si>", "<seu>", "<teu>">>,
    <<"<po>", "<me>", "<i>", "<syeon>">>,
    <<"<jeon>", "<sul>">>,
    <<"<maen>", "<yu>">>,
    <<"<ri>", "<beo>", "<pul>">>,
    <<"<son>", "<heung>", "<min>">>,
    <<"<peu>", "<ri>", "<mi>", "<eo>", "<ri>", "<geu>">>,
    <<"<wol>", "<deu>", "<keop>">>,
    <<"<chaem>", "<pi>", "<eon>", "<seu>", "<ri>", "<geu>">>,
    <<"<ra>", "<ri>", "<ga>">>,
    <<"<bun>", "<de>", "<seu>", "<ri>", "<ga>">>,
    <<"<se>", "<ri>", "<e>", "A">> }

----------------------------------------------------------------------------
(* The two patterns, matched as re.search matches them: leftmost start,    *)
(* then the choices of each quantifier in the backtracking order (greedy:  *)
(* longest first, lazy: shortest first).  A match is the tuple of the      *)
(* spans of its groups; NoMatch stands for None.                           *)

NoMatch == <<>>

\* the literal that opens match_pattern
MatchMarker == <<"<gyeong>", "<gi>", " ", "<yo>", "<yak>">>

\* the literal that opens player_pattern
PlayerMarker == <<"<seon>", "<su>", " ", "<tong>", "<gye>">>

\* [:FWCOLON] of both patterns
IsColon(c) == c \in {":", "FWCOLON"}

\* (.+) at the end of a pattern, from j: greedy, at least one character
LastGroup(p, j) ==
    LET n == DotRun(p, j) IN IF n >= 1 THEN <<j, j + n - 1>> ELSE NoMatch

RECURSIVE MatchW2(_, _, _)
\* \s+ after "vs", w characters of it, then the second group
MatchW2(p, j, w) ==
    IF w < 1 THEN NoMatch
    ELSE LET r == LastGroup(p, j + w)
         IN  IF r # NoMatch THEN r ELSE MatchW2(p, j, w - 1)

RECURSIVE MatchW1(_, _, _)
\* \s+ before "vs", w characters of it, then "vs", \s+ and the second group
MatchW1(p, j, w) ==
    IF w < 1 THEN NoMatch
    ELSE LET r == IF LitAt(p, j + w, <<"v", "s">>)
                  THEN MatchW2(p, j + w + 2, WsRun(p, j + w + 2))
                  ELSE NoMatch
         IN  IF r # NoMatch THEN r ELSE MatchW1(p, j, w - 1)

RECURSIVE MatchG1(_, _, _)
\* (.+?) from j, g characters of it (lazy: the shortest that lets the rest match)
MatchG1(p, j, g) ==
    IF g > DotRun(p, j) THEN NoMatch
    ELSE LET r == MatchW1(p, j + g, WsRun(p, j + g))
         IN  IF r # NoMatch THEN <<j, j + g - 1>> \o r ELSE MatchG1(p, j, g + 1)

RECURSIVE MatchW0(_, _, _)
\* \s* after the marker, w characters of it, then the rest of match_pattern
MatchW0(p, j, w) ==
    IF w < 0 THEN NoMatch
    ELSE LET r == MatchG1(p, j + w, 1)
         IN  IF r # NoMatch THEN r ELSE MatchW0(p, j, w - 1)

\* match_pattern anchored at i
MatchAt(p, i) ==
    IF ~LitAt(p, i, MatchMarker) THEN NoMatch
    ELSE LET j == i + Len(MatchMarker)
             withColon == IF j <= Len(p) /\ IsColon(p[j])
                          THEN MatchW0(p, j + 1, WsRun(p, j + 1))
                          ELSE NoMatch
         IN  IF withColon # NoMatch THEN withColon ELSE MatchW0(p, j, WsRun(p, j))

RECURSIVE MatchSearch(_, _)
MatchSearch(p, i) ==
    IF i > Len(p) THEN NoMatch
    ELSE LET r == MatchAt(p, i)
         IN  IF r # NoMatch THEN r ELSE MatchSearch(p, i + 1)

\* re.search(match_pattern, prompt, re.IGNORECASE): NoMatch or the spans of groups 1 and 2
match_pattern(p) == MatchSearch(p, 1)

RECURSIVE PlayerW0(_, _, _)
\* \s* after the marker, w characters of it, then the group
PlayerW0(p, j, w) ==
    IF w < 0 THEN NoMatch
    ELSE LET r == LastGroup(p, j + w)
         IN  IF r # NoMatch THEN r ELSE PlayerW0(p, j, w - 1)

\* player_pattern anchored at i
PlayerAt(p, i) ==
    IF ~LitAt(p, i, PlayerMarker) THEN NoMatch
    ELSE LET j == i + Len(PlayerMarker)
             withColon == IF j <= Len(p) /\ IsColon(p[j])
                          THEN PlayerW0(p, j + 1, WsRun(p, j + 1))
                          ELSE NoMatch
         IN  IF withColon # NoMatch THEN withColon ELSE PlayerW0(p, j, WsRun(p, j))

RECURSIVE PlayerSearch(_, _)
PlayerSearch(p, i) ==
    IF i > Len(p) THEN NoMatch
    ELSE LET r == PlayerAt(p, i)
         IN  IF r # NoMatch THEN r ELSE PlayerSearch(p, i + 1)

\* re.search(player_pattern, prompt, re.IGNORECASE): NoMatch or the span of group 1
player_pattern(p) == PlayerSearch(p, 1)

\* the text of a group
Group(p, span, n) == SubSeq(p, span[2 * n - 1], span[2 * n])

----------------------------------------------------------------------------
(* The mock tools.  json.dumps(..., ensure_ascii=False) is modelled on the *)
(* text: the fixed parts of the object are single tokens, the interpolated *)
(* names are escaped character by character.                               *)

\* json.dumps of one character of a string
EscapeChar(c) ==
    IF c = "QUOTE" THEN <<"BACKSLASH", "QUOTE">>
    ELSE IF c = "BACKSLASH" THEN <<"BACKSLASH", "BACKSLASH">>
    ELSE IF c = "NL" THEN <<"BACKSLASH", "n">>
    ELSE IF c = "TAB" THEN <<"BACKSLASH", "t">>
    ELSE <<c>>

RECURSIVE JsonEscape(_)
JsonEscape(s) == IF s = <<>> THEN <<>> ELSE EscapeChar(Head(s)) \o JsonEscape(Tail(s))

\* json.dumps of a string
JsonString(s) == <<"QUOTE">> \o JsonEscape(s) \o <<"QUOTE">>

\* the f-string tail of summary_text after {home}
SummaryMid == <<"<i>", "(", "<ga>", ")", " ">>

\* the f-string tail of summary_text after {away}, one token
SummaryEnd == <<"SUMMARY_END">>

\* the f-string tail of notes after {player_name}, one token
NotesEnd == <<"NOTES_END">>

get_match_summary(home, away) ==
    <<"{\"home\": ">> \o JsonString(home)
    \o <<", \"away\": ">> \o JsonString(away)
    \o <<", \"score\": \"2-1\", \"events\": [{\"minute\": 12, \"team\": ">> \o JsonString(home)
    \o <<", \"type\": \"goal\", \"player\": \"A. Kim\"}, {\"minute\": 45, \"team\": ">>
    \o JsonString(away)
    \o <<", \"type\": \"goal\", \"player\": \"J. Lee\"}, {\"minute\": 78, \"team\": ">>
    \o JsonString(home)
    \o <<", \"type\": \"goal\", \"player\": \"B. Park\"}], \"summary_text\": ">>
    \o JsonString(home \o SummaryMid \o away \o SummaryEnd)
    \o <<"}">>

get_player_stats(player_name) ==
    <<"{\"player\": ">> \o JsonString(player_name)
    \o <<", \"appearances\": 24, \"goals\": 9, \"assists\": 6, \"rating\": 7.4, \"notes\": ">>
    \o JsonString(player_name \o NotesEnd)
    \o <<"}">>

----------------------------------------------------------------------------
(* The remote model *)

\* `client` before the constructor has returned in an execution
Unbound == "unbound"

\* the text the model generates
Replies == { <<"REPLY">> }

\* str(e) of the exception client.chat.completions.create raises, one token
Failures == { <<"Connection error.">> }

\* how one invocation ends
Outcomes ==
    {[kind |-> "ok", text |-> r] : r \in Replies}
        \cup {[kind |-> "fail", text |-> f] : f \in Failures}

\* the literal call_model returns when client is None, one token
DisabledMsg == <<"CALLS_DISABLED">>

\* the f-string prefix of the error call_model returns, one token
ErrorPrefix == <<"CALL_ERROR: ">>

\* mutant: the exception's text is returned without the error prefix
call_modelBareDetail(cl, out) ==
    IF cl = "None" THEN DisabledMsg ELSE out.text

\* call_model's return value for a client, and the way the invocation ends
call_model(cl, out) ==
    IF cl = "None" THEN DisabledMsg
    ELSE IF out.kind = "ok" THEN out.text
    ELSE ErrorPrefix \o out.text

\* mutant: a failed invocation is tried once more
CreateCallsRetry(cl, out) ==
    IF cl = "None" THEN 0 ELSE IF out.kind = "fail" THEN 2 ELSE 1

\* the number of times call_model runs client.chat.completions.create
CreateCalls(cl, out) == IF cl = "None" THEN 0 ELSE 1

----------------------------------------------------------------------------
(* Classification and composition *)

Modes == {"Auto", "Soccer", "General"}

\* mutant: the keywords are consulted whatever the mode
IsSoccerAnyMode(m, p) ==
    m = "Soccer" \/ \E k \in SOCCER_KEYWORDS : StrContains(p, k)

\* is_soccer
IsSoccer(m, p) ==
    m = "Soccer" \/ (m = "Auto" /\ \E k \in SOCCER_KEYWORDS : StrContains(p, k))

\* the content of the system message, one token for the fixed text
SystemDirective == <<"SYSTEM_DIRECTIVE">>

system == [role |-> "system", content |-> SystemDirective]

Turn(r, c) == [role |-> r, content |-> c]

ToolTurn(n, c) == [role |-> "tool", name |-> n, content |-> c]

\* mutant: player_pattern is tried before match_pattern
DomainComposePlayerFirst(p) ==
    LET mp == match_pattern(p)
        pp == player_pattern(p)
    IN  IF pp # NoMatch
        THEN LET t == get_player_stats(Strip(Group(p, pp, 1)))
             IN  [branch |-> "single", lookups |-> 1, tool |-> t,
                  messages |-> <<system, Turn("user", p), ToolTurn("get_player_stats", t)>>]
        ELSE IF mp # NoMatch
        THEN LET t == get_match_summary(Strip(Group(p, mp, 1)), Strip(Group(p, mp, 2)))
             IN  [branch |-> "pairwise", lookups |-> 1, tool |-> t,
                  messages |-> <<system, Turn("user", p), ToolTurn("get_match_summary", t)>>]
        ELSE [branch |-> "generic", lookups |-> 0, tool |-> <<>>,
              messages |-> <<system, Turn("user", p)>>]

\* the is_soccer branch: the branch taken, the messages composed, the tool record
DomainCompose(p) ==
    LET mp == match_pattern(p)
        pp == player_pattern(p)
    IN  IF mp # NoMatch
        THEN LET t == get_match_summary(Strip(Group(p, mp, 1)), Strip(Group(p, mp, 2)))
             IN  [branch |-> "pairwise", lookups |-> 1, tool |-> t,
                  messages |-> <<system, Turn("user", p), ToolTurn("get_match_summary", t)>>]
        ELSE IF pp # NoMatch
        THEN LET t == get_player_stats(Strip(Group(p, pp, 1)))
             IN  [branch |-> "single", lookups |-> 1, tool |-> t,
                  messages |-> <<system, Turn("user", p), ToolTurn("get_player_stats", t)>>]
        ELSE [branch |-> "generic", lookups |-> 0, tool |-> <<>>,
              messages |-> <<system, Turn("user", p)>>]

\* mutant: the system directive is sent in the general branch too
GeneralComposeWithSystem(hist) ==
    [branch |-> "general", lookups |-> 0, tool |-> <<>>,
     messages |-> <<system>> \o
         [i \in 1..Len(hist) |-> [role |-> hist[i].role, content |-> hist[i].content]]]

\* the general branch: the history, role and content of each entry
GeneralCompose(hist) ==
    [branch |-> "general", lookups |-> 0, tool |-> <<>>,
     messages |-> [i \in 1..Len(hist) |-> [role |-> hist[i].role, content |-> hist[i].content]]]

\* mutant: the user turn is not stored
UserAppendSkip(hist, p) == hist

\* the user turn is stored
UserAppend(hist, p) == Append(hist, Turn("user", p))

\* the assistant turn is stored
AssistantAppend(hist, r) == Append(hist, Turn("assistant", r))

\* what the turn composes, given the classification and the history with the user turn in it
Compose(dom, hist, p) == IF dom THEN DomainCompose(p) ELSE GeneralCompose(hist)

----------------------------------------------------------------------------
(* Inputs *)

\* "hi": no keyword, no pattern
PromptHi == <<"h", "i">>

\* a keyword and no pattern
PromptGoal == <<"<gol>", " ", "<neoh>", "<eoss>", "<eo>", "?">>

\* match_pattern, a first name of two words
PromptMatch ==
    <<"<gyeong>", "<gi>", " ", "<yo>", "<yak>", ":", " ", "M", "a", "n", " ", "U", "n", "i",
      "t", "e", "d", " ", "v", "s", " ", "L", "i", "v", "e", "r", "p", "o", "o", "l">>

\* player_pattern
PromptPlayer ==
    <<"<seon>", "<su>", " ", "<tong>", "<gye>", ":", " ", "S", "o", "n", " ", "H", "e", "u",
      "n", "g", "-", "m", "i", "n">>

\* both patterns, no colon, upper-case VS, a trailing blank
PromptBoth ==
    <<"<seon>", "<su>", " ", "<tong>", "<gye>", " ", "<gyeong>", "<gi>", " ", "<yo>", "<yak>",
      " ", "A", " ", "V", "S", " ", "B", " ">>

\* the last keyword with its letter in lower case: no keyword
PromptSerieLower == <<"<se>", "<ri>", "<e>", "a">>

\* the marker of match_pattern without " vs "
PromptMatchNoVs == <<"<gyeong>", "<gi>", " ", "<yo>", "<yak>", ":", " ", "A">>

\* the marker of player_pattern and a colon: the colon is the captured name
PromptPlayerColon == <<"<seon>", "<su>", " ", "<tong>", "<gye>", ":">>

\* what the chat input submits (st.chat_input never submits the empty string,
\* and `if prompt :=` would skip it)
Prompts ==
    { PromptHi, PromptGoal, PromptMatch, PromptPlayer, PromptBoth, PromptSerieLower,
      PromptMatchNoVs, PromptPlayerColon }

\* what the text inputs of the tool test expanders hold
HomeNames == { <<"M", " ", "U">> }

AwayNames == { <<>> }

PlayerNames == { <<"S", "o", "n">> }

\* what starts an execution of the script: a page load or a widget change, a chat
\* submission, one of the two tool test buttons, the reset button
Triggers == {"load", "chat", "test_match", "test_stats", "reset"}

\* load_dotenv(): a variable that is set stays set, one that is not may be set by .env
Dotenv(cur) == IF cur THEN {TRUE} ELSE BOOLEAN

----------------------------------------------------------------------------
(* The script *)

Init ==
    /\ env_key \in BOOLEAN
    /\ env_endpoint \in BOOLEAN
    /\ client = Unbound
    /\ messages = <<>>
    /\ trigger = "none"
    /\ stopped = ""
    /\ mode = "Auto"
    /\ prompt = <<>>
    /\ is_soccer = FALSE
    /\ branch = "none"
    /\ sent = <<>>
    /\ tool_out = <<>>
    /\ outcome = "none"
    /\ reply = <<>>
    /\ n_calls = 0
    /\ n_lookups = 0
    /\ turns = 0

\* an execution that handles no chat input
NoTurn ==
    /\ mode' = "Auto"
    /\ prompt' = <<>>
    /\ is_soccer' = FALSE
    /\ branch' = "none"
    /\ sent' = <<>>
    /\ outcome' = "none"
    /\ reply' = <<>>
    /\ n_calls' = 0

\* the configuration check: st.error and st.stop()
ConfigStop ==
    \E k \in Dotenv(env_key), e \in Dotenv(env_endpoint), t \in Triggers :
        /\ ~k \/ ~e
        /\ env_key' = k
        /\ env_endpoint' = e
        /\ client' = Unbound
        /\ trigger' = t
        /\ stopped' = "config"
        /\ NoTurn
        /\ tool_out' = <<>>
        /\ n_lookups' = 0
        /\ UNCHANGED <<messages, turns>>

\* AzureOpenAI(...) raises: st.error and st.stop()
CtorStop ==
    \E k \in Dotenv(env_key), e \in Dotenv(env_endpoint), t \in Triggers :
        /\ k /\ e
        /\ env_key' = k
        /\ env_endpoint' = e
        /\ client' = Unbound
        /\ trigger' = t
        /\ stopped' = "ctor"
        /\ NoTurn
        /\ tool_out' = <<>>
        /\ n_lookups' = 0
        /\ UNCHANGED <<messages, turns>>

\* mutant: the configuration is not checked
StartedUnchecked(k, e, t) ==
    /\ env_key' = k
    /\ env_endpoint' = e
    /\ client' = "Client"
    /\ trigger' = t
    /\ stopped' = ""

\* the start of an execution that gets past both checks
Started(k, e, t) ==
    /\ k /\ e
    /\ env_key' = k
    /\ env_endpoint' = e
    /\ client' = "Client"
    /\ trigger' = t
    /\ stopped' = ""

\* an execution with no button pressed and nothing submitted
PageLoad ==
    \E k \in Dotenv(env_key), e \in Dotenv(env_endpoint) :
        /\ Started(k, e, "load")
        /\ NoTurn
        /\ tool_out' = <<>>
        /\ n_lookups' = 0
        /\ UNCHANGED <<messages, turns>>

\* mutant: the test button stores the record in the history
TestMatchStores ==
    \E k \in Dotenv(env_key), e \in Dotenv(env_endpoint), t_home \in HomeNames, t_away \in AwayNames :
        /\ Started(k, e, "test_match")
        /\ NoTurn
        /\ tool_out' = get_match_summary(t_home, t_away)
        /\ n_lookups' = 1
        /\ messages' = Append(messages, ToolTurn("get_match_summary", tool_out'))
        /\ UNCHANGED turns

\* the button of the match summary test
TestMatch ==
    \E k \in Dotenv(env_key), e \in Dotenv(env_endpoint), t_home \in HomeNames, t_away \in AwayNames :
        /\ Started(k, e, "test_match")
        /\ NoTurn
        /\ tool_out' = get_match_summary(t_home, t_away)
        /\ n_lookups' = 1
        /\ UNCHANGED <<messages, turns>>

\* the button of the player stats test
TestStats ==
    \E k \in Dotenv(env_key), e \in Dotenv(env_endpoint), p_name \in PlayerNames :
        /\ Started(k, e, "test_stats")
        /\ NoTurn
        /\ tool_out' = get_player_stats(p_name)
        /\ n_lookups' = 1
        /\ UNCHANGED <<messages, turns>>

\* the reset button: the history is emptied and st.rerun() executes the script
\* again, where the constructor may raise
Reset ==
    \E k \in Dotenv(env_key), e \in Dotenv(env_endpoint), again \in BOOLEAN :
        /\ k /\ e
        /\ env_key' = k
        /\ env_endpoint' = e
        /\ trigger' = "reset"
        /\ messages' = <<>>
        /\ turns' = 0
        /\ client' = IF again THEN "Client" ELSE Unbound
        /\ stopped' = IF again THEN "" ELSE "rerun_ctor"
        /\ NoTurn
        /\ tool_out' = <<>>
        /\ n_lookups' = 0

\* a chat submission: the user turn, the classification, the composition, the
\* invocation and the assistant turn
ChatTurn ==
    \E k \in Dotenv(env_key), e \in Dotenv(env_endpoint),
       m \in Modes, p \in Prompts, out \in Outcomes :
        /\ turns < MaxTurns
        /\ Started(k, e, "chat")
        /\ LET hist == UserAppend(messages, p)
               dom == IsSoccer(m, p)
               c == Compose(dom, hist, p)
               r == call_model("Client", out)
           IN  /\ mode' = m
               /\ prompt' = p
               /\ is_soccer' = dom
               /\ branch' = c.branch
               /\ sent' = c.messages
               /\ tool_out' = c.tool
               /\ n_lookups' = c.lookups
               /\ outcome' = out.kind
               /\ reply' = r
               /\ n_calls' = CreateCalls("Client", out)
               /\ messages' = AssistantAppend(hist, r)
               /\ turns' = turns + 1

Next ==
    \/ ConfigStop
    \/ CtorStop
    \/ PageLoad
    \/ TestMatch
    \/ TestStats
    \/ Reset
    \/ ChatTurn

Spec == Init /\ [][Next]_vars

----------------------------------------------------------------------------
(* The classifier on its own: the expression of is_soccer applied to a     *)
(* message and a mode.                                                     *)

PromptSon == <<"<son>", "<heung>", "<min>", " ", "<jal>", "<hae>", "?">>

PromptHello == <<"h", "e", "l", "l", "o", " ", "w", "o", "r", "l", "d">>

\* a keyword that ends one character short
PromptCut == <<"<son>", "<heung>">>

\* a keyword broken by a blank
PromptBroken == <<"<chuk>", " ", "<gu>">>

\* the messages the classifier is applied to: the empty one, every keyword alone,
\* every keyword inside other text, the chat prompts and the messages above
PurePrompts ==
    {<<>>, PromptSon, PromptHello, PromptCut, PromptBroken}
        \cup Prompts
        \cup SOCCER_KEYWORDS
        \cup {<<"h", "i", " ">> \o k \o <<"?">> : k \in SOCCER_KEYWORDS}

InitPure ==
    /\ env_key = TRUE
    /\ env_endpoint = TRUE
    /\ client = "Client"
    /\ messages = <<>>
    /\ trigger = "input"
    /\ stopped = ""
    /\ mode \in Modes
    /\ prompt \in PurePrompts
    /\ is_soccer = FALSE
    /\ branch = "none"
    /\ sent = <<>>
    /\ tool_out = <<>>
    /\ outcome = "none"
    /\ reply = <<>>
    /\ n_calls = 0
    /\ n_lookups = 0
    /\ turns = 0

Classify ==
    /\ trigger = "input"
    /\ trigger' = "classified"
    /\ is_soccer' = IsSoccer(mode, prompt)
    /\ UNCHANGED <<env_key, env_endpoint, client, messages, stopped, mode, prompt, branch,
                   sent, tool_out, outcome, reply, n_calls, n_lookups, turns>>

NextPure == Classify

SpecPure == InitPure /\ [][NextPure]_vars

----------------------------------------------------------------------------
(* Properties *)

\* k occurs in m at position i, character by character
OccursAt(m, k, i) == \A j \in 1..Len(k) : i + j - 1 <= Len(m) /\ m[i + j - 1] = k[j]

\* m contains a keyword as an exact substring
HasKeyword(m) == \E k \in SOCCER_KEYWORDS : \E i \in 1..Len(m) : OccursAt(m, k, i)

\* s is a prefix of t
IsPrefix(s, t) == Len(s) <= Len(t) /\ \A i \in 1..Len(s) : s[i] = t[i]

\* every character of p from a to b is whitespace
AllSpace(p, a, b) == \A x \in a..b : IsSpace(p[x])

\* every character of p from a to b is not a newline
AllDot(p, a, b) == \A x \in a..b : IsDot(p[x])

\* the marker mk occurs in p at i, followed by an optional colon and blanks up to
\* (not including) position j
Opens(p, mk, i, j) ==
    /\ OccursAt(p, mk, i)
    /\ j >= i + Len(mk)
    /\ \/ AllSpace(p, i + Len(mk), j - 1)
       \/ /\ j > i + Len(mk)
          /\ IsColon(p[i + Len(mk)])
          /\ AllSpace(p, i + Len(mk) + 1, j - 1)

\* "vs" in either case at b, blanks on both sides: the blanks before it start at a,
\* the blanks after it end before c
Versus(p, a, b, c) ==
    /\ a < b
    /\ AllSpace(p, a, b - 1)
    /\ p[b] \in {"v", "V"}
    /\ p[b + 1] \in {"s", "S"}
    /\ c > b + 2
    /\ AllSpace(p, b + 2, c - 1)

\* Q(home, away) holds of the trimmed names of some way to read p as
\* marker [colon] blanks NAME blanks vs blanks NAME
SomePairwise(p, Q(_, _)) ==
    \E i \in 1..Len(p) : \E j \in (i + Len(MatchMarker))..Len(p) :
        /\ Opens(p, MatchMarker, i, j)
        /\ \E a \in (j + 1)..Len(p) :
            /\ AllDot(p, j, a - 1)
            /\ \E b \in (a + 1)..(Len(p) - 1) : \E c \in (b + 3)..Len(p) :
                /\ Versus(p, a, b, c)
                /\ \E d \in c..Len(p) :
                    /\ AllDot(p, c, d)
                    /\ Q(Strip(SubSeq(p, j, a - 1)), Strip(SubSeq(p, c, d)))

\* Q(name) holds of the trimmed name of some way to read p as
\* marker [colon] blanks NAME
SomeSingle(p, Q(_)) ==
    \E i \in 1..Len(p) : \E j \in (i + Len(PlayerMarker))..Len(p) :
        /\ Opens(p, PlayerMarker, i, j)
        /\ \E d \in j..Len(p) :
            /\ AllDot(p, j, d)
            /\ Q(Strip(SubSeq(p, j, d)))

\* p matches the pairwise pattern
MatchesPairwise(p) == LET AnyPair(h, a) == TRUE IN SomePairwise(p, AnyPair)

\* p matches the single-entity pattern
MatchesSingle(p) == LET AnyName(n) == TRUE IN SomeSingle(p, AnyName)

\* a chat submission was handled by the last execution
Handled == trigger = "chat" /\ stopped = ""

\* s holds a tool turn
HasToolTurn(s) == \E i \in 1..Len(s) : s[i].role = "tool"

\* C1: for every message, the empty one included, and every mode, is_soccer is true
\* under Soccer, false under General, and under Auto true exactly when the message
\* contains a keyword as an exact, case-sensitive substring.
C1_Classifier ==
    trigger = "classified" =>
        /\ mode = "Soccer" => is_soccer
        /\ mode = "General" => ~is_soccer
        /\ mode = "Auto" => (is_soccer <=> HasKeyword(prompt))
        /\ mode = "Auto" /\ prompt = PromptSon => is_soccer
        /\ mode = "Auto" /\ prompt \in {<<>>, PromptHello, PromptSerieLower} => ~is_soccer

\* the lower-case spelling of a keyword was classified under Auto: not a domain message
C1_Witness ==
    /\ trigger = "classified"
    /\ mode = "Auto"
    /\ prompt = PromptSerieLower
    /\ ~is_soccer

\* C2: on a domain turn the sequence sent is chosen by the first matching rule:
\* pairwise pattern -> [system, user, tool turn with the pairwise lookup of the two
\* captured names]; else single-entity pattern -> [system, user, tool turn with the
\* single-entity lookup of the captured name]; else [system, user].  A message that
\* matches both takes the pairwise path; never a second tool turn, never a turn of the
\* earlier history.
C2_Composition ==
    Handled /\ is_soccer =>
        LET user == [role |-> "user", content |-> prompt]
            IsTool(t, n) == DOMAIN t = {"role", "name", "content"} /\ t.role = "tool" /\ t.name = n
        IN  /\ Len(sent) \in {2, 3}
            /\ sent[1] = system
            /\ sent[2] = user
            /\ IF MatchesPairwise(prompt)
               THEN /\ Len(sent) = 3
                    /\ IsTool(sent[3], "get_match_summary")
                    /\ LET Carried(h, a) == sent[3].content = get_match_summary(h, a)
                       IN  SomePairwise(prompt, Carried)
               ELSE IF MatchesSingle(prompt)
               THEN /\ Len(sent) = 3
                    /\ IsTool(sent[3], "get_player_stats")
                    /\ LET Carried(n) == sent[3].content = get_player_stats(n)
                       IN  SomeSingle(prompt, Carried)
               ELSE Len(sent) = 2
            /\ prompt = PromptMatch =>
                   sent[3].content =
                       get_match_summary(<<"M", "a", "n", " ", "U", "n", "i", "t", "e", "d">>,
                                         <<"L", "i", "v", "e", "r", "p", "o", "o", "l">>)
            /\ prompt = PromptPlayer =>
                   sent[3].content =
                       get_player_stats(<<"S", "o", "n", " ", "H", "e", "u", "n", "g", "-",
                                          "m", "i", "n">>)
            /\ prompt = PromptBoth => sent[3].content = get_match_summary(<<"A">>, <<"B">>)

\* a message that matches both patterns was sent on the pairwise path, on a second turn
C2_Witness ==
    /\ Handled
    /\ is_soccer
    /\ prompt = PromptBoth
    /\ branch = "pairwise"
    /\ Len(sent) = 3
    /\ Len(messages) = 4

\* C3: on a turn that is not a domain turn the sequence sent is the whole history of
\* that moment, in order, role and content unchanged, ending with the user turn just
\* appended; no system directive, no tool turn.
C3_GeneralSendsHistory ==
    Handled /\ ~is_soccer =>
        /\ messages = Append(sent, [role |-> "assistant", content |-> reply])
        /\ sent[Len(sent)] = [role |-> "user", content |-> prompt]
        /\ \A i \in 1..Len(sent) : sent[i].role \in {"user", "assistant"}

\* a general turn on a history that holds an earlier turn and its reply
C3_Witness ==
    /\ Handled
    /\ ~is_soccer
    /\ Len(sent) = 3
    /\ sent[1].content = PromptMatch
    /\ sent[3].content = PromptHi

\* C4: every handled user turn makes exactly one remote invocation, in every branch
\* and whether it succeeds or fails; the local lookup is at most one and is no
\* invocation; an execution that handles no user turn makes none.
C4_OneInvocation ==
    /\ Handled => n_calls = 1 /\ n_lookups \in {0, 1}
    /\ Handled => branch \in {"pairwise", "single", "generic", "general"}
    /\ ~Handled => n_calls = 0

\* a pairwise turn whose invocation failed
C4_Witness ==
    /\ Handled
    /\ branch = "pairwise"
    /\ outcome = "fail"
    /\ n_lookups = 1
    /\ n_calls = 1

\* C5: when the invocation fails, call_model returns the error prefix followed by the
\* failure's text, and the turn ends with one new assistant turn holding that string,
\* after the user turn: the same shape as after a success.
C5_FailureIsAReply ==
    [][ (trigger' = "chat" /\ stopped' = "" /\ outcome' = "fail") =>
            /\ \E f \in Failures : reply' = ErrorPrefix \o f
            /\ messages' = messages \o <<[role |-> "user", content |-> prompt'],
                                         [role |-> "assistant", content |-> reply']>> ]_vars

\* a failed invocation on a second turn
C5_Witness ==
    /\ Handled
    /\ outcome = "fail"
    /\ turns = 2
    /\ messages[4].content = reply
    /\ SubSeq(reply, 1, Len(ErrorPrefix)) = ErrorPrefix

\* C6: while the credential or the endpoint is absent, every execution has stopped at
\* the configuration check: no client, no invocation, no turn handled, the history
\* as it was.
C6_NoConfigNoCall ==
    /\ ~env_key \/ ~env_endpoint =>
           /\ stopped \in {"", "config"}
           /\ stopped = "" => trigger = "none"
           /\ client = Unbound
           /\ n_calls = 0
           /\ n_lookups = 0
           /\ sent = <<>>
           /\ messages = <<>>
    /\ stopped = "config" => ~env_key \/ ~env_endpoint

\* a chat submission met the configuration error
C6_Witness ==
    /\ trigger = "chat"
    /\ stopped = "config"
    /\ env_key
    /\ ~env_endpoint

\* C7: when client construction fails the program keeps accepting user turns: the
\* turn returns the calls-disabled message without a remote invocation and appends
\* it as the assistant turn.
C7_CallsDisabled ==
    trigger = "chat" /\ stopped = "ctor" =>
        /\ reply = DisabledMsg
        /\ n_calls = 0
        /\ messages # <<>>
        /\ messages[Len(messages)] = [role |-> "assistant", content |-> DisabledMsg]

\* C8: the history changes only by appending and by the reset: each step leaves the
\* old history a prefix of the new one unless it is a reset; the tool test buttons
\* leave it unchanged; a handled turn adds the user turn and the assistant turn and
\* nothing of what it composed; a reset leaves it empty and makes no invocation.
C8_AppendOnly ==
    [][ /\ IsPrefix(messages, messages')
           \/ (trigger' = "reset" /\ stopped' \in {"", "rerun_ctor"})
        /\ trigger' \in {"test_match", "test_stats", "load"} => messages' = messages
        /\ stopped' \in {"config", "ctor"} => messages' = messages
        /\ (trigger' = "chat" /\ stopped' = "") =>
               /\ Len(messages') = Len(messages) + 2
               /\ messages'[Len(messages) + 1] = [role |-> "user", content |-> prompt']
               /\ messages'[Len(messages) + 2] = [role |-> "assistant", content |-> reply']
        /\ (trigger' = "reset" /\ stopped' \in {"", "rerun_ctor"}) =>
               messages' = <<>> /\ n_calls' = 0 ]_vars

\* the match summary test ran over a history of two turns
C8_Witness ==
    /\ trigger = "test_match"
    /\ stopped = ""
    /\ n_lookups = 1
    /\ Len(messages) = 4

\* C9: the history holds only user and assistant turns, alternating from a user turn,
\* each with the fields role and content; its length is twice the number of turns
\* completed since the last reset; no system directive and no tool turn is stored.
C9_Alternation ==
    /\ Len(messages) = 2 * turns
    /\ \A i \in 1..Len(messages) :
        /\ DOMAIN messages[i] = {"role", "content"}
        /\ messages[i].role = IF i % 2 = 1 THEN "user" ELSE "assistant"

\* two domain turns, the second with a tool turn composed, and four stored turns
C9_Witness ==
    /\ Handled
    /\ turns = 2
    /\ Len(messages) = 4
    /\ branch = "single"
    /\ HasToolTurn(sent)
    /\ messages[1].content = PromptGoal

\* C10: a tool turn is composed exactly when the mode is not General and the message
\* matches one of the two patterns; under Auto a message that matches a pattern is a
\* domain message; under General no lookup is made.
C10_ToolTurnIff ==
    Handled =>
        LET matches == MatchesPairwise(prompt) \/ MatchesSingle(prompt)
        IN  /\ HasToolTurn(sent) <=> (mode # "General" /\ matches)
            /\ HasToolTurn(sent) <=> n_lookups = 1
            /\ mode = "Auto" /\ matches => is_soccer
            /\ mode = "General" => n_lookups = 0 /\ tool_out = <<>>
            /\ HasKeyword(MatchMarker) /\ HasKeyword(PlayerMarker)

\* under Auto the match summary message was classified as domain and its tool turn composed
C10_Witness ==
    /\ Handled
    /\ mode = "Auto"
    /\ prompt = PromptMatch
    /\ is_soccer
    /\ HasToolTurn(sent)
    /\ n_lookups = 1

====
